---------------------------- MODULE Spec2Model ----------------------------
(***************************************************************************)
(* gologger (src/main.go): an asynchronous logger.  Producers call the     *)
(* facade (ERR / WRN / INF / DBG), which filters by Priority, formats a     *)
(* record in Log() and sends it on the buffered channel logChan.  One      *)
(* goroutine, daemon(), receives each record and writes it to stdout, to   *)
(* syslog and to a daily log file, in that order.                          *)
(*                                                                         *)
(* The daemon is modelled statement group by statement group (pc), so the  *)
(* host, the producers and the clock interleave with it as goroutines do.  *)
(* Calls into the operating system (open, close, write) succeed or fail    *)
(* nondeterministically.  Variables below the line "history" are not       *)
(* program state: they record what was enqueued, dequeued and written.     *)
(***************************************************************************)
EXTENDS Integers, Sequences, FiniteSets

\* ------------------------------------------------------------------ bounds
ChanCap == 2          \* capacity of logChan (the program uses 1000)
MaxRecords == 3       \* records the producers format in one run
DaysPerMonth == 2     \* length of a month of the simulated calendar
MaxDate == 4          \* calendar days the clock runs through

\* --------------------------------------------------------------- constants
LOG_ERR == 3
LOG_WARNING == 4
LOG_INFO == 6
LOG_DEBUG == 7

\* The values the host may store in Priority: the four thresholds the facade
\* compares against and LOG_CRIT (2), one that is below all of them.
Priorities == {2, LOG_ERR, LOG_WARNING, LOG_INFO, LOG_DEBUG}

Levels == {"E", "W", "I", "D"}

\* The dynamic type of the value passed to ERR as e.
Causes == {"error", "string", "byte", "int", "nil", "other"}

\* The goroutines that call the facade: two, so that calls and sends of
\* different callers interleave.
Producers == {"p1", "p2"}
Dates == 1..MaxDate
None == [id |-> 0]
Nil == [name |-> <<0, 0>>, closed |-> TRUE]

Sinks == {"stdout", "syslog", "file"}

VARIABLES
    \* the Log struct
    logChan, syslogWriter, fileWriter,
    Priority, SendToStdout, SendToSyslog, SendToLogfile,
    \* the wall clock (a day of the simulated calendar)
    now,
    \* daemon(): position, locals, and the record its own ERR is sending
    pc, message, oldDate, newDate, wpend, wnext,
    \* producers: the record each is blocked sending (None: not in a call)
    pending, nextId, panicked,
    \* Close(): the position of the goroutine that called it
    closePc,
    \* history: ids entered into / taken from the channel, the sinks whose
    \* flag the daemon found set for the record in its hands, the records it
    \* finished, what each sink received, the calls that failed, the error
    \* records the daemon formatted, the outcome of the last facade call
    enq, deq, seen, done, outStdout, outSyslog, outFile, files, failures,
    errLogged, lastCall,
    \* history: how often syslog.New succeeded and how often Close was called
    \* on the log file; whether a call of Close() has returned since the
    \* daemon last received a record ("no"), and if so whether the last one
    \* returned without entering its loop ("atOnce") or not ("afterSleep")
    handleOps, closeReturned

vars == <<logChan, syslogWriter, fileWriter,
          Priority, SendToStdout, SendToSyslog, SendToLogfile, now,
          pc, message, oldDate, newDate, wpend, wnext,
          pending, nextId, panicked, closePc,
          enq, deq, seen, done, outStdout, outSyslog, outFile, files,
          failures, errLogged, lastCall, handleOps, closeReturned>>

logVars == <<logChan, syslogWriter, fileWriter>>
cfgVars == <<Priority, SendToStdout, SendToSyslog, SendToLogfile>>
daemonVars == <<pc, message, oldDate, newDate, wpend, wnext>>
prodVars == <<pending, nextId, panicked, lastCall>>
outVars == <<outStdout, outSyslog, outFile, files>>
histVars == <<enq, deq, seen, done, failures, errLogged, handleOps>>
closeVars == <<closePc, closeReturned>>

\* ---------------------------------------------------------------- calendar
\* time.Now().Date() returns (year, month, day); the simulated calendar has
\* DaysPerMonth days a month.
Month(d) == ((d - 1) \div DaysPerMonth) + 1
Day(d) == ((d - 1) % DaysPerMonth) + 1

\* ------------------------------------------------------------------ facade
\* The syslog priority each facade method compares Priority against.
LevelPriority_CopyPaste(lvl) ==
    CASE lvl = "E" -> LOG_ERR
      [] lvl = "W" -> LOG_ERR
      [] lvl = "I" -> LOG_INFO
      [] lvl = "D" -> LOG_DEBUG

LevelPriority(lvl) ==
    CASE lvl = "E" -> LOG_ERR
      [] lvl = "W" -> LOG_WARNING
      [] lvl = "I" -> LOG_INFO
      [] lvl = "D" -> LOG_DEBUG

\* if l.Priority < syslog.LOG_xxx { return }
Filtered(prio, lvl) == prio < LevelPriority(lvl)

\* anyErrToString: the shape of the string by the dynamic type of e.  The
\* case "byte, int" asserts e.(byte), which panics when e is an int.
anyErrToString(cause) ==
    CASE cause \in {"error", "string"} -> "err{}"
      [] cause = "byte" -> "RC:"
      [] cause = "int" -> "panic"
      [] OTHER -> "???{}"

\* Log(): the formatted line "|<level>|<func>():<line> <message>\n".
NewRecord(id, lvl, body) == [id |-> id, level |-> lvl, body |-> body]

CanSend_Unbounded(q) == TRUE
\* l.logChan <- s proceeds only while the buffer has room
CanSend(q) == Len(q) < ChanCap

Send(q, r) == Append(q, r)

Dequeue_Newest(q) == [msg |-> q[Len(q)], rest |-> SubSeq(q, 1, Len(q) - 1)]
Dequeue_Peek(q) == [msg |-> Head(q), rest |-> q]
\* message := <-l.logChan: the oldest record leaves the buffer
Dequeue(q) == [msg |-> Head(q), rest |-> Tail(q)]

\* ------------------------------------------------------------------- files
\* filepath.Base(os.Args[0]) + "_" + time.Now().Format("2006-01-02") + ".log":
\* one name per calendar date.
FileName(d) == <<Month(d), Day(d)>>
FileNames == {FileName(d) : d \in Dates}

\* An *os.File.  Nil is the nil pointer; Close leaves the handle closed
\* whether or not it reports an error, and Write on nil or on a closed handle
\* fails.
OpenFile(d) == [name |-> FileName(d), closed |-> FALSE]
Closed(fw) == IF fw = Nil THEN Nil ELSE [fw EXCEPT !.closed = TRUE]

\* newFile(): close the open file, if any, then open today's file.  Either
\* call may fail; on failure newFile reports through ERR and returns without
\* assigning l.fileWriter.  err is "none" or the failure to report.
newFile(fw, today, closeOk, openOk) ==
    IF fw # Nil /\ ~closeOk
    THEN [fw |-> Closed(fw), err |-> "fileClose"]
    ELSE IF ~openOk
         THEN [fw |-> Closed(fw), err |-> "fileOpen"]
         ELSE [fw |-> OpenFile(today), err |-> "none"]

AppendTo_Overwrite(fs, name, entry) == [fs EXCEPT ![name] = <<entry>>]
\* Write on a file opened O_APPEND|O_CREATE: the file keeps what it holds and
\* the line is added at its end.
AppendTo(fs, name, entry) == [fs EXCEPT ![name] = Append(@, entry)]

\* if newDate != oldDate, where both are the day of the month
NeedsRotate(newD, oldD) == Day(newD) # oldD

\* ------------------------------------------------------------------- state
Init ==
    /\ logChan = <<>>
    /\ syslogWriter = FALSE
    /\ fileWriter = Nil
    /\ Priority = LOG_DEBUG
    /\ SendToStdout = TRUE
    /\ SendToSyslog = FALSE
    /\ SendToLogfile = FALSE
    /\ now = 1
    /\ pc = "start"
    /\ message = None
    /\ oldDate = 0
    /\ newDate = 0
    /\ wpend = None
    /\ wnext = "none"
    /\ pending = [p \in Producers |-> None]
    /\ nextId = 1
    /\ panicked = FALSE
    /\ enq = <<>>
    /\ deq = <<>>
    /\ seen = {}
    /\ done = <<>>
    /\ outStdout = <<>>
    /\ outSyslog = <<>>
    /\ outFile = <<>>
    /\ files = [n \in FileNames |-> <<>>]
    /\ failures = {}
    /\ errLogged = 0
    /\ lastCall = "none"
    /\ closePc = "idle"
    /\ handleOps = [syslogOpens |-> 0, fileCloses |-> 0]
    /\ closeReturned = "no"

\* ------------------------------------------------------------ environment
\* Midnight passes.  Handling one record takes the daemon far less than a
\* day, so a date changes while the daemon waits (for a record, or to send
\* its own error record on the full channel), not between two statements of
\* the loop body.
Tick ==
    /\ ~panicked
    /\ pc \in {"start", "recv", "errsend", "stopped"}
    /\ now < MaxDate
    /\ now' = now + 1
    /\ UNCHANGED <<closeVars, logVars, cfgVars, daemonVars, prodVars, outVars,
                   histVars>>

\* The host assigns the exported fields of L at any time.
SetPriority(p) ==
    /\ ~panicked
    /\ p # Priority
    /\ Priority' = p
    /\ UNCHANGED <<closeVars, logVars, SendToStdout, SendToSyslog, SendToLogfile,
                   now, daemonVars, prodVars, outVars, histVars>>

SetSendToStdout(b) ==
    /\ ~panicked
    /\ b # SendToStdout
    /\ SendToStdout' = b
    /\ UNCHANGED <<closeVars, logVars, Priority, SendToSyslog, SendToLogfile,
                   now, daemonVars, prodVars, outVars, histVars>>

SetSendToSyslog(b) ==
    /\ ~panicked
    /\ b # SendToSyslog
    /\ SendToSyslog' = b
    /\ UNCHANGED <<closeVars, logVars, Priority, SendToStdout, SendToLogfile,
                   now, daemonVars, prodVars, outVars, histVars>>

SetSendToLogfile(b) ==
    /\ ~panicked
    /\ b # SendToLogfile
    /\ SendToLogfile' = b
    /\ UNCHANGED <<closeVars, logVars, Priority, SendToStdout, SendToSyslog,
                   now, daemonVars, prodVars, outVars, histVars>>

\* --------------------------------------------------------------- producers
\* One facade call by producer p, up to the channel send in Log(): the
\* Priority check, then (ERR only) anyErrToString, then Log() formats the
\* record.  A filtered call returns at once; a panic in anyErrToString
\* unwinds into the caller before Log() runs and, nothing in the package
\* recovering it, ends the process: no action is enabled once panicked.
Call(p, lvl, body) ==
    /\ ~panicked
    /\ pending[p] = None
    /\ IF Filtered(Priority, lvl)
       THEN /\ lastCall' = "filtered"
            /\ UNCHANGED <<pending, nextId, panicked>>
       ELSE IF body = "panic"
       THEN /\ panicked' = TRUE
            /\ lastCall' = "panicked"
            /\ UNCHANGED <<pending, nextId>>
       ELSE /\ nextId <= MaxRecords
            /\ pending' = [pending EXCEPT ![p] = NewRecord(nextId, lvl, body)]
            /\ nextId' = nextId + 1
            /\ lastCall' = "admitted"
            /\ UNCHANGED panicked
    /\ UNCHANGED <<closeVars, logVars, cfgVars, now, daemonVars, outVars,
                   histVars>>

ERR(p, cause) == Call(p, "E", anyErrToString(cause))
WRN(p) == Call(p, "W", "msg")
INF(p) == Call(p, "I", "msg")
DBG(p) == Call(p, "D", "msg")

\* l.logChan <- s in Log(), called by a producer.
LogSend(p) ==
    /\ ~panicked
    /\ pending[p] # None
    /\ CanSend(logChan)
    /\ logChan' = Send(logChan, pending[p])
    /\ enq' = Append(enq, pending[p].id)
    /\ pending' = [pending EXCEPT ![p] = None]
    /\ UNCHANGED <<closeVars, syslogWriter, fileWriter, cfgVars, now,
                   daemonVars, nextId, panicked, lastCall, outVars,
                   deq, seen, done, failures, errLogged, handleOps>>

\* ------------------------------------------------------------------ daemon
DaemonStart_OpensEagerly ==
    /\ ~panicked
    /\ pc = "start"
    /\ oldDate' = Day(now)
    /\ fileWriter' = OpenFile(now)
    /\ pc' = "recv"
    /\ UNCHANGED <<closeVars, logChan, syslogWriter, cfgVars, now, message,
                   newDate, wpend, wnext, prodVars, outVars, histVars>>

\* runtime.LockOSThread(); _, _, oldDate := time.Now().Date()
DaemonStart ==
    /\ ~panicked
    /\ pc = "start"
    /\ oldDate' = Day(now)
    /\ pc' = "recv"
    /\ UNCHANGED <<closeVars, logVars, cfgVars, now, message, newDate, wpend,
                   wnext, prodVars, outVars, histVars>>

\* message := <-l.logChan
DaemonReceive ==
    /\ ~panicked
    /\ pc = "recv"
    /\ Len(logChan) > 0
    /\ message' = Dequeue(logChan).msg
    /\ logChan' = Dequeue(logChan).rest
    /\ deq' = Append(deq, Dequeue(logChan).msg.id)
    /\ seen' = {}
    /\ closeReturned' = "no"
    /\ pc' = "stdout"
    /\ UNCHANGED <<closePc, syslogWriter, fileWriter, cfgVars, now, oldDate,
                   newDate, wpend, wnext, prodVars, outVars, enq, done,
                   failures, errLogged, handleOps>>

\* if l.SendToStdout { fmt.Print(messageWithTimestamp) }, the write
\* succeeding.
DaemonStdout ==
    /\ ~panicked
    /\ pc = "stdout"
    /\ pc' = "syslog"
    /\ IF SendToStdout
       THEN /\ outStdout' = Append(outStdout, message.id)
            /\ seen' = seen \cup {"stdout"}
       ELSE UNCHANGED <<outStdout, seen>>
    /\ UNCHANGED <<closeVars, logVars, cfgVars, now, message, oldDate,
                   newDate, wpend, wnext, prodVars, outSyslog, outFile, files,
                   enq, deq, done, failures, errLogged, handleOps>>

DaemonStdoutFails_Stops ==
    /\ ~panicked
    /\ pc = "stdout"
    /\ SendToStdout
    /\ pc' = "stopped"
    /\ seen' = seen \cup {"stdout"}
    /\ failures' = failures \cup {"console"}
    /\ UNCHANGED <<closeVars, logVars, cfgVars, now, message, oldDate,
                   newDate, wpend, wnext, prodVars, outVars, enq, deq, done,
                   errLogged, handleOps>>

\* The same statement, the write failing (stdout closed, a full pipe): the
\* result of fmt.Print is dropped, so nothing is written and the loop goes on.
DaemonStdoutFails ==
    /\ ~panicked
    /\ pc = "stdout"
    /\ SendToStdout
    /\ pc' = "syslog"
    /\ seen' = seen \cup {"stdout"}
    /\ failures' = failures \cup {"console"}
    /\ UNCHANGED <<closeVars, logVars, cfgVars, now, message, oldDate,
                   newDate, wpend, wnext, prodVars, outVars, enq, deq, done,
                   errLogged, handleOps>>

DaemonERR_Continues(next) ==
    IF Filtered(Priority, "E")
    THEN /\ pc' = (IF next = "stopped" THEN "file" ELSE next)
         /\ UNCHANGED <<wpend, wnext, errLogged>>
    ELSE /\ wpend' = NewRecord(0 - (errLogged + 1), "E",
                               anyErrToString("error"))
         /\ wnext' = (IF next = "stopped" THEN "file" ELSE next)
         /\ errLogged' = errLogged + 1
         /\ pc' = "errsend"

\* l.ERR(err, "...") called by the daemon: filtered by Priority like any
\* call; otherwise Log() formats the record and the daemon sends it on its
\* own channel (DaemonErrSend), then goes on at `next`.
DaemonERR(next) ==
    IF Filtered(Priority, "E")
    THEN /\ pc' = next
         /\ UNCHANGED <<wpend, wnext, errLogged>>
    ELSE /\ wpend' = NewRecord(0 - (errLogged + 1), "E",
                               anyErrToString("error"))
         /\ wnext' = next
         /\ errLogged' = errLogged + 1
         /\ pc' = "errsend"

\* l.logChan <- s in Log(), called by the daemon.
DaemonErrSend ==
    /\ ~panicked
    /\ pc = "errsend"
    /\ CanSend(logChan)
    /\ logChan' = Send(logChan, wpend)
    /\ enq' = Append(enq, wpend.id)
    /\ wpend' = None
    /\ wnext' = "none"
    /\ pc' = wnext
    /\ UNCHANGED <<closeVars, syslogWriter, fileWriter, cfgVars, now, message,
                   oldDate, newDate, prodVars, outVars, deq, seen, done,
                   failures, errLogged, handleOps>>

\* The record has passed all three sinks: back to the receive.  The locals
\* of the loop body go out of scope.
Finish(sinks) ==
    /\ done' = Append(done, [id |-> message.id, sinks |-> sinks])
    /\ message' = None
    /\ seen' = {}
    /\ newDate' = 0
    /\ pc' = "recv"

\* if l.SendToSyslog { open the writer if nil; write the raw message }
DaemonSyslog ==
    /\ ~panicked
    /\ pc = "syslog"
    /\ IF ~SendToSyslog
       THEN /\ pc' = "file"
            /\ UNCHANGED <<syslogWriter, outSyslog, seen, failures, wpend,
                           wnext, errLogged, handleOps>>
       ELSE \E openOk, writeOk \in BOOLEAN :
              /\ seen' = seen \cup {"syslog"}
              /\ handleOps' = [handleOps EXCEPT !.syslogOpens =
                                  IF ~syslogWriter /\ openOk THEN @ + 1 ELSE @]
              /\ IF ~syslogWriter /\ ~openOk
                 THEN /\ failures' = failures \cup {"syslogOpen"}
                      /\ DaemonERR("stopped")
                      /\ UNCHANGED <<syslogWriter, outSyslog>>
                 ELSE IF ~writeOk
                 THEN /\ syslogWriter' = TRUE
                      /\ failures' = failures \cup {"syslogWrite"}
                      /\ DaemonERR("stopped")
                      /\ UNCHANGED outSyslog
                 ELSE /\ syslogWriter' = TRUE
                      /\ outSyslog' = Append(outSyslog, message.id)
                      /\ pc' = "file"
                      /\ UNCHANGED <<failures, wpend, wnext, errLogged>>
    /\ UNCHANGED <<closeVars, logChan, fileWriter, cfgVars, now, message,
                   oldDate, newDate, prodVars, outStdout, outFile, files, enq,
                   deq, done>>

\* if l.SendToLogfile { if l.fileWriter == nil { l.newFile() } ...
DaemonFile ==
    /\ ~panicked
    /\ pc = "file"
    /\ IF ~SendToLogfile
       THEN /\ Finish(seen)
            /\ UNCHANGED <<fileWriter, failures, wpend, wnext, errLogged>>
       ELSE /\ seen' = seen \cup {"file"}
            /\ UNCHANGED <<message, done, newDate>>
            /\ IF fileWriter # Nil
               THEN /\ pc' = "datecheck"
                    /\ UNCHANGED <<fileWriter, failures, wpend, wnext,
                                   errLogged>>
               ELSE \E openOk \in BOOLEAN :
                      LET r == newFile(fileWriter, now, TRUE, openOk) IN
                      /\ fileWriter' = r.fw
                      /\ IF r.err = "none"
                         THEN /\ pc' = "datecheck"
                              /\ UNCHANGED <<failures, wpend, wnext,
                                             errLogged>>
                         ELSE /\ failures' = failures \cup {r.err}
                              /\ DaemonERR("datecheck")
    /\ UNCHANGED <<closeVars, logChan, syslogWriter, cfgVars, now, oldDate,
                   prodVars, outVars, enq, deq, handleOps>>

\* _, _, newDate := time.Now().Date(); if newDate != oldDate { l.newFile() ...
DaemonDateCheck ==
    /\ ~panicked
    /\ pc = "datecheck"
    /\ newDate' = now
    /\ IF ~NeedsRotate(now, oldDate)
       THEN /\ pc' = "write"
            /\ UNCHANGED <<fileWriter, failures, wpend, wnext, errLogged,
                           handleOps>>
       ELSE \E closeOk, openOk \in BOOLEAN :
              LET r == newFile(fileWriter, now, closeOk, openOk) IN
              /\ fileWriter' = r.fw
              /\ handleOps' = [handleOps EXCEPT !.fileCloses =
                                  IF fileWriter # Nil THEN @ + 1 ELSE @]
              /\ IF r.err = "none"
                 THEN /\ pc' = "setdate"
                      /\ UNCHANGED <<failures, wpend, wnext, errLogged>>
                 ELSE /\ failures' = failures \cup {r.err}
                      /\ DaemonERR("setdate")
    /\ UNCHANGED <<closeVars, logChan, syslogWriter, cfgVars, now, message,
                   oldDate, prodVars, outVars, enq, deq, seen, done>>

\* ... oldDate = newDate }
DaemonSetDate ==
    /\ ~panicked
    /\ pc = "setdate"
    /\ oldDate' = Day(newDate)
    /\ pc' = "write"
    /\ UNCHANGED <<closeVars, logVars, cfgVars, now, message, newDate, wpend,
                   wnext, prodVars, outVars, histVars>>

\* _, err := l.fileWriter.Write([]byte(messageWithTimestamp))
DaemonWrite ==
    /\ ~panicked
    /\ pc = "write"
    /\ \E writeOk \in BOOLEAN :
         IF fileWriter.closed \/ ~writeOk
         THEN /\ failures' = failures \cup {"fileWrite"}
              /\ DaemonERR("stopped")
              /\ UNCHANGED <<files, outFile, message, done, seen, newDate>>
         ELSE /\ files' = AppendTo(files, fileWriter.name,
                                   [id |-> message.id,
                                    date |-> FileName(newDate)])
              /\ outFile' = Append(outFile, message.id)
              /\ Finish(seen)
              /\ UNCHANGED <<failures, wpend, wnext, errLogged>>
    /\ UNCHANGED <<closeVars, logVars, cfgVars, now, oldDate, prodVars,
                   outStdout, outSyslog, enq, deq, handleOps>>

\* ------------------------------------------------------------------- Close
\* Close() is called by one goroutine of the host.  It touches nothing but
\* len(l.logChan) and its local lenLogChan.
StillPending_OffByOne(n) == n > 1
\* for lenLogChan > 0
StillPending(n) == n > 0

CloseCall_SleepsFirst ==
    /\ ~panicked
    /\ closePc = "idle"
    /\ closePc' = "sleep"
    /\ UNCHANGED <<closeReturned, logVars, cfgVars, now, daemonVars, prodVars,
                   outVars, histVars>>

CloseCall_ClosesFile ==
    /\ ~panicked
    /\ closePc = "idle"
    /\ fileWriter' = Closed(fileWriter)
    /\ IF StillPending(Len(logChan))
       THEN closePc' = "sleep" /\ UNCHANGED closeReturned
       ELSE closePc' = "idle" /\ closeReturned' = "atOnce"
    /\ UNCHANGED <<logChan, syslogWriter, cfgVars, now, daemonVars, prodVars,
                   outVars, histVars>>

\* The call up to the first test of the loop:
\* lenLogChan := len(l.logChan); for lenLogChan > 0 { ... } and the return
\* when the loop is not entered.
CloseCall ==
    /\ ~panicked
    /\ closePc = "idle"
    /\ IF StillPending(Len(logChan))
       THEN closePc' = "sleep" /\ UNCHANGED closeReturned
       ELSE closePc' = "idle" /\ closeReturned' = "atOnce"
    /\ UNCHANGED <<logVars, cfgVars, now, daemonVars, prodVars, outVars,
                   histVars>>

\* time.Sleep(100 * time.Millisecond)
CloseSleep ==
    /\ ~panicked
    /\ closePc = "sleep"
    /\ closePc' = "check"
    /\ UNCHANGED <<closeReturned, logVars, cfgVars, now, daemonVars, prodVars,
                   outVars, histVars>>

\* lenLogChan = len(l.logChan), the test of the loop, and the return when it
\* fails.
CloseCheck ==
    /\ ~panicked
    /\ closePc = "check"
    /\ IF StillPending(Len(logChan))
       THEN closePc' = "sleep" /\ UNCHANGED closeReturned
       ELSE closePc' = "idle" /\ closeReturned' = "afterSleep"
    /\ UNCHANGED <<logVars, cfgVars, now, daemonVars, prodVars, outVars,
                   histVars>>

\* -------------------------------------------------------------------- spec
Next ==
    \/ CloseCall
    \/ CloseSleep
    \/ CloseCheck
    \/ Tick
    \/ \E p \in Priorities : SetPriority(p)
    \/ \E b \in BOOLEAN : SetSendToStdout(b)
    \/ \E b \in BOOLEAN : SetSendToSyslog(b)
    \/ \E b \in BOOLEAN : SetSendToLogfile(b)
    \/ \E p \in Producers, c \in Causes : ERR(p, c)
    \/ \E p \in Producers : WRN(p)
    \/ \E p \in Producers : INF(p)
    \/ \E p \in Producers : DBG(p)
    \/ \E p \in Producers : LogSend(p)
    \/ DaemonStart
    \/ DaemonReceive
    \/ DaemonStdout
    \/ DaemonStdoutFails
    \/ DaemonSyslog
    \/ DaemonFile
    \/ DaemonDateCheck
    \/ DaemonSetDate
    \/ DaemonWrite
    \/ DaemonErrSend

Spec == Init /\ [][Next]_vars

\* The specifications below restrict the environment, not the program: each
\* Next is a sub-disjunction of Next.  daemon() never inspects a record, so
\* the specifications about the sinks let the producers call one method; in
\* all of them the writes to stdout succeed.

\* The facade under every Priority, level and cause; sinks as configured by
\* init().
NextFacade ==
    \/ \E p \in Priorities : SetPriority(p)
    \/ \E p \in Producers, c \in Causes : ERR(p, c)
    \/ \E p \in Producers : WRN(p)
    \/ \E p \in Producers : INF(p)
    \/ \E p \in Producers : DBG(p)
    \/ \E p \in Producers : LogSend(p)
    \/ DaemonStart
    \/ DaemonReceive
    \/ DaemonStdout
    \/ DaemonSyslog
    \/ DaemonFile

SpecFacade == Init /\ [][NextFacade]_vars

\* The Priority filter alone: every Priority and level; the filter runs
\* before ERR looks at its cause, so every cause is an error value.
NextFilter ==
    \/ \E p \in Priorities : SetPriority(p)
    \/ \E p \in Producers : ERR(p, "error")
    \/ \E p \in Producers : WRN(p)
    \/ \E p \in Producers : INF(p)
    \/ \E p \in Producers : DBG(p)
    \/ \E p \in Producers : LogSend(p)
    \/ DaemonStart
    \/ DaemonReceive
    \/ DaemonStdout
    \/ DaemonSyslog
    \/ DaemonFile

SpecFilter == Init /\ [][NextFilter]_vars

\* The three sinks switched on and off at any time, within one calendar day.
NextSinks ==
    \/ \E b \in BOOLEAN : SetSendToStdout(b)
    \/ \E b \in BOOLEAN : SetSendToSyslog(b)
    \/ \E b \in BOOLEAN : SetSendToLogfile(b)
    \/ \E p \in Producers : INF(p)
    \/ \E p \in Producers : LogSend(p)
    \/ DaemonStart
    \/ DaemonReceive
    \/ DaemonStdout
    \/ DaemonSyslog
    \/ DaemonFile
    \/ DaemonDateCheck
    \/ DaemonWrite
    \/ DaemonErrSend

SpecSinks == Init /\ [][NextSinks]_vars

\* The file sink across calendar days.
NextRotation ==
    \/ Tick
    \/ \E b \in BOOLEAN : SetSendToLogfile(b)
    \/ \E p \in Producers : INF(p)
    \/ \E p \in Producers : LogSend(p)
    \/ DaemonStart
    \/ DaemonReceive
    \/ DaemonStdout
    \/ DaemonSyslog
    \/ DaemonFile
    \/ DaemonDateCheck
    \/ DaemonSetDate
    \/ DaemonWrite
    \/ DaemonErrSend

SpecRotation == Init /\ [][NextRotation]_vars

\* The console always enabled, its writes succeeding or failing; syslog and
\* the log file switched on and off, within one calendar day.
NextConsole ==
    \/ \E b \in BOOLEAN : SetSendToSyslog(b)
    \/ \E b \in BOOLEAN : SetSendToLogfile(b)
    \/ \E p \in Producers : INF(p)
    \/ \E p \in Producers : LogSend(p)
    \/ DaemonStart
    \/ DaemonReceive
    \/ DaemonStdout
    \/ DaemonStdoutFails
    \/ DaemonSyslog
    \/ DaemonFile
    \/ DaemonDateCheck
    \/ DaemonWrite
    \/ DaemonErrSend

SpecConsole == Init /\ [][NextConsole]_vars

\* Close() called at any time while producers log to the console and to
\* syslog.
NextClose ==
    \/ CloseCall
    \/ CloseSleep
    \/ CloseCheck
    \/ \E b \in BOOLEAN : SetSendToSyslog(b)
    \/ \E p \in Producers : INF(p)
    \/ \E p \in Producers : LogSend(p)
    \/ DaemonStart
    \/ DaemonReceive
    \/ DaemonStdout
    \/ DaemonSyslog
    \/ DaemonFile
    \/ DaemonErrSend

SpecClose == Init /\ [][NextClose]_vars

\* The same under fair scheduling: the Go scheduler runs every goroutine
\* that can take a step, so the daemon, a sender that has room and the
\* caller of Close each go on when they can.
SpecCloseFair ==
    /\ SpecClose
    /\ WF_vars(CloseSleep) /\ WF_vars(CloseCheck)
    /\ \A p \in Producers : WF_vars(LogSend(p))
    /\ WF_vars(DaemonStart) /\ WF_vars(DaemonReceive) /\ WF_vars(DaemonStdout)
    /\ WF_vars(DaemonSyslog) /\ WF_vars(DaemonFile) /\ WF_vars(DaemonErrSend)

\* A producer, Close() and the daemon across calendar days; the host enables
\* syslog and the log file at some time and leaves them enabled.
NextOwnership ==
    \/ CloseCall
    \/ CloseSleep
    \/ CloseCheck
    \/ Tick
    \/ SetSendToSyslog(TRUE)
    \/ SetSendToLogfile(TRUE)
    \/ INF("p1")
    \/ LogSend("p1")
    \/ DaemonStart
    \/ DaemonReceive
    \/ DaemonStdout
    \/ DaemonSyslog
    \/ DaemonFile
    \/ DaemonDateCheck
    \/ DaemonSetDate
    \/ DaemonWrite
    \/ DaemonErrSend

SpecOwnership == Init /\ [][NextOwnership]_vars

\* ================================================================== claims
\* Helpers of the properties below.
Count(seq, x) == Cardinality({i \in 1..Len(seq) : seq[i] = x})
IdsOf(seq) == [i \in 1..Len(seq) |-> seq[i].id]
Elems(seq) == {seq[i] : i \in 1..Len(seq)}
Pos(seq, x) == CHOOSE i \in 1..Len(seq) : seq[i] = x
InFiles(id) ==
    Cardinality(UNION {{<<n, i>> : i \in {j \in 1..Len(files[n]) :
                                              files[n][j].id = id}} :
                       n \in FileNames})
InFlight(id) == IF message # None /\ message.id = id THEN 1 ELSE 0
Waiting(id) ==
    Cardinality({p \in Producers : pending[p] # None /\ pending[p].id = id})
    + (IF wpend # None /\ wpend.id = id THEN 1 ELSE 0)

\* The severity of a facade method as a syslog severity (smaller is more
\* severe): ERROR 3, WARNING 4, INFO 6, DEBUG 7.
Severity(lvl) ==
    CASE lvl = "E" -> 3 [] lvl = "W" -> 4 [] lvl = "I" -> 6 [] lvl = "D" -> 7

\* The step is a call of the facade method of level lvl by producer p.
CallOf(p, lvl) ==
    CASE lvl = "E" -> \E c \in Causes : ERR(p, c)
      [] lvl = "W" -> WRN(p)
      [] lvl = "I" -> INF(p)
      [] lvl = "D" -> DBG(p)

FatalFailure ==
    failures \cap {"syslogOpen", "syslogWrite", "fileOpen", "fileWrite"} # {}

\* C1: while no sink open, close or write has failed, no record is dequeued
\* twice, every enqueued record is in exactly one place (the channel, the
\* daemon's hands, or finished), and every record the daemon has finished
\* was written exactly once to each sink whose flag the daemon found set
\* when it reached that sink, and not at all to the others.
C1_ExactlyOnce ==
    failures = {} =>
        /\ \A id \in Elems(deq) : Count(deq, id) = 1
        /\ \A id \in Elems(enq) :
             Count(IdsOf(logChan), id) + InFlight(id) + Count(IdsOf(done), id) = 1
        /\ \A r \in Elems(done) :
             /\ Count(outStdout, r.id) = (IF "stdout" \in r.sinks THEN 1 ELSE 0)
             /\ Count(outSyslog, r.id) = (IF "syslog" \in r.sinks THEN 1 ELSE 0)
             /\ Count(outFile, r.id) = (IF "file" \in r.sinks THEN 1 ELSE 0)
             /\ InFiles(r.id) = (IF "file" \in r.sinks THEN 1 ELSE 0)

\* Two producers' records, one of them written to all three sinks.
C1_Witness ==
    /\ failures = {}
    /\ Len(done) >= 2
    /\ \E r \in Elems(done) : r.sinks = Sinks
    /\ \E r \in Elems(done) : r.sinks # Sinks

\* C2: the records written to each sink are, in order, a subsequence of the
\* records in the order they entered the channel.
InEnqueueOrder(out) ==
    /\ \A i \in 1..Len(out) : out[i] \in Elems(enq)
    /\ \A i, j \in 1..Len(out) : i < j => Pos(enq, out[i]) < Pos(enq, out[j])

C2_SinkOrder ==
    /\ InEnqueueOrder(outStdout)
    /\ InEnqueueOrder(outSyslog)
    /\ InEnqueueOrder(outFile)

\* Records entered the channel in another order than they were formatted,
\* and every sink has received two of them.
C2_Witness ==
    /\ Len(enq) >= 2 /\ enq[1] > enq[2]
    /\ Len(outStdout) >= 2 /\ Len(outSyslog) >= 2 /\ Len(outFile) >= 2

\* C3: a call whose severity is below the threshold changes nothing: the
\* channel, the handles, the configuration, the daemon, the producers'
\* pending records, the count of Log() calls and every output are as before.
C3_FilteredCallChangesNothing ==
    [][\A p \in Producers, lvl \in Levels :
         (Severity(lvl) > Priority /\ CallOf(p, lvl)) =>
             UNCHANGED <<logVars, cfgVars, now, daemonVars, pending, nextId,
                         panicked, outVars, histVars>>]_vars

\* A call was filtered while records were in the channel and in the daemon's
\* hands.
C3_Witness ==
    /\ lastCall = "filtered"
    /\ Len(logChan) > 0 /\ message # None /\ Len(outStdout) > 0

\* C4: a call puts a record on its way to the channel if and only if its
\* severity is at or more severe than the threshold.
C4_EnqueuesIffSevereEnough ==
    [][\A p \in Producers, lvl \in Levels :
         CallOf(p, lvl) =>
             ((pending'[p] # None) <=> (Severity(lvl) <= Priority))]_vars

\* C5: once an open or a write on the syslog or the file sink has failed,
\* the daemon dequeues nothing, writes nothing, the channel does not shrink
\* and no handle is opened again.
C5_FatalStop ==
    [][FatalFailure =>
         /\ deq' = deq
         /\ UNCHANGED outVars
         /\ Len(logChan') >= Len(logChan)
         /\ fileWriter' = fileWriter
         /\ syslogWriter' = syslogWriter]_vars

\* C6: every record in a log file was written on the date the file is named
\* for.
C6_FileHoldsOwnDate ==
    \A n \in FileNames : \A i \in 1..Len(files[n]) : files[n][i].date = n

\* C7 as stated: every record the daemon is through with (finished, or
\* dropped when it left its loop), and for which it found the file sink
\* enabled, is in exactly one log file exactly once.
Through(id) ==
    \/ id \in Elems(IdsOf(done))
    \/ message # None /\ message.id = id /\ pc = "stopped"

FileSinkSeen(id) ==
    \/ \E r \in Elems(done) : r.id = id /\ "file" \in r.sinks
    \/ message # None /\ message.id = id /\ "file" \in seen

C8_Backpressure ==
    /\ Len(logChan) <= ChanCap
    /\ \A id \in (1..(nextId - 1)) \cup {0 - k : k \in 1..errLogged} :
         Waiting(id) + Count(IdsOf(logChan), id) + Count(deq, id) = 1

\* A producer is blocked on the full channel.
C8_Witness ==
    /\ Len(logChan) = ChanCap
    /\ \E p \in Producers : pending[p] # None
    /\ Len(deq) > 0

\* C9: once an open or a write on the syslog or the file sink has failed,
\* exactly one error record has been formatted and the daemon is sending it
\* or has left its loop.
C9_LoggedOnceThenExit ==
    FatalFailure => (errLogged = 1 /\ pc \in {"errsend", "stopped"})

\* C10: no call panics.
C10_NoPanic == ~panicked

\* The string the documentation gives for each kind of cause.
ExpectedString(cause) ==
    CASE cause \in {"error", "string"} -> "err{}"
      [] cause \in {"byte", "int"} -> "RC:"
      [] OTHER -> "???{}"

\* C11: an admitted call of ERR formats exactly one error record, and its
\* text is the one documented for the kind of its cause.
C11_StringifiesByKind ==
    [][\A p \in Producers, c \in Causes :
         (Severity("E") <= Priority /\ ERR(p, c)) =>
             /\ pending'[p] = NewRecord(nextId, "E", ExpectedString(c))
             /\ nextId' = nextId + 1]_vars

\* C12: a call of Close() that finds the channel empty returns in the same
\* step, without sleeping, and changes nothing of the program; a second such
\* call changes nothing at all.
C12_CloseOnEmptyQueue ==
    [][(Len(logChan) = 0 /\ CloseCall) =>
         /\ closePc' = "idle"
         /\ closeReturned' = "atOnce"
         /\ UNCHANGED <<logVars, cfgVars, now, daemonVars, prodVars, outVars,
                        histVars>>
         /\ (closeReturned = "atOnce" => UNCHANGED vars)]_vars

\* Close() returned at once on the channel that records have passed through.
C12_Witness ==
    /\ closeReturned = "atOnce" /\ closePc = "idle"
    /\ Len(logChan) = 0 /\ Len(deq) > 0

\* C13: every return of Close() happens in a step that finds the channel
\* empty, and leaves the channel as it is.
C13_ReturnsOnlyOnZero ==
    [][((closePc # "idle" /\ closePc' = "idle")
         \/ (closeReturned' # closeReturned /\ closeReturned' # "no")) =>
            (Len(logChan) = 0 /\ UNCHANGED logChan)]_vars

\* Close() has returned after the daemon received its last record, which the
\* daemon has written to neither of the two sinks that are enabled.
C13_Witness ==
    /\ closeReturned = "afterSleep" /\ closePc = "idle"
    /\ message # None /\ message.id = deq[Len(deq)]
    /\ pc = "stdout" /\ SendToStdout /\ SendToSyslog
    /\ message.id \notin Elems(outStdout) \cup Elems(outSyslog)

\* C14: a step that changes the syslog handle, the file handle or the
\* recorded date is a step of the daemon at one of the statements that use
\* them; it is not a step of a producer or of Close().
C14_SingleWriter ==
    [][(<<syslogWriter, fileWriter, oldDate, handleOps>>' #
            <<syslogWriter, fileWriter, oldDate, handleOps>>) =>
         /\ pc \in {"start", "syslog", "file", "datecheck", "setdate"}
         /\ pc' # pc
         /\ UNCHANGED <<closeVars, pending, nextId, lastCall, logChan>>]_vars

\* Both handles are open and the file has been rotated while a producer is
\* sending and Close() is polling.
C14_Witness ==
    /\ syslogWriter /\ fileWriter # Nil /\ ~fileWriter.closed
    /\ handleOps.fileCloses > 0
    /\ closePc = "check"
    /\ \E p \in Producers : pending[p] # None

SyslogFailure == failures \cap {"syslogOpen", "syslogWrite"} # {}

\* C15: the daemon writes a record to the console before syslog and to
\* syslog before the file; the record whose syslog open or write fails has
\* not been written to the file, and after that failure nothing is written
\* to the file.
C15_SinkOrderAndAbort ==
    [][/\ (outStdout' # outStdout) =>
            /\ message.id \notin Elems(outSyslog) \cup Elems(outFile)
            /\ seen \cap {"syslog", "file"} = {}
       /\ (outSyslog' # outSyslog) =>
            /\ message.id \notin Elems(outFile)
            /\ "file" \notin seen
            /\ ("stdout" \in seen => message.id \in Elems(outStdout))
       /\ (outFile' # outFile) =>
            /\ ("stdout" \in seen => message.id \in Elems(outStdout))
            /\ ("syslog" \in seen => message.id \in Elems(outSyslog))
       /\ (SyslogFailure' /\ ~SyslogFailure) =>
            /\ message.id \notin Elems(outFile) /\ InFiles(message.id) = 0
            /\ message' = message
       /\ SyslogFailure => UNCHANGED <<message, outFile, files>>]_vars

\* The syslog write failed for a record that was written to the console,
\* with the file sink enabled and holding earlier records.
C15_Witness ==
    /\ "syslogWrite" \in failures
    /\ pc = "stopped"
    /\ SendToLogfile /\ SendToStdout
    /\ message.id \in Elems(outStdout)
    /\ Len(outFile) > 0

\* C16: the step in which a console write fails (the daemon passes the
\* console statement with the flag set and nothing is written) takes the
\* daemon on to the syslog sink with the same record; while no syslog or file call has
\* failed the daemon has not left its loop, and every record it finished
\* was written to syslog and to the file as their flags said.
C16_ConsoleFailureNotFatal ==
    /\ [][(pc = "stdout" /\ pc' # pc /\ SendToStdout
                /\ outStdout' = outStdout) =>
             (pc' = "syslog" /\ message' = message)]_vars
    /\ [](~FatalFailure =>
             /\ pc \notin {"errsend", "stopped"}
             /\ \A r \in Elems(done) :
                  /\ Count(outSyslog, r.id) =
                         (IF "syslog" \in r.sinks THEN 1 ELSE 0)
                  /\ InFiles(r.id) = (IF "file" \in r.sinks THEN 1 ELSE 0))

\* The console write of a record failed; the record was then written to
\* syslog and to the file, and the daemon finished a later record.
C16_Witness ==
    \E i, j \in 1..Len(done) :
        /\ i < j
        /\ "stdout" \in done[i].sinks
        /\ done[i].id \notin Elems(outStdout)
        /\ done[i].id \in Elems(outSyslog)
        /\ done[i].id \in Elems(outFile)
        /\ done[j].id \in Elems(outStdout)

\* The daemon has reached sink k with the flag of k set, for the record in
\* its hands or for one it finished.
Processed(k) == k \in seen \/ \E r \in Elems(done) : k \in r.sinks

\* C17: the syslog connection is open only if the daemon has processed a
\* record with the syslog sink enabled, a log file only if it has processed
\* one with the file sink enabled, and syslog.New succeeds at most once.
C17_LazyHandles ==
    /\ syslogWriter => Processed("syslog")
    /\ handleOps.syslogOpens > 0 => Processed("syslog")
    /\ fileWriter # Nil => Processed("file")
    /\ handleOps.syslogOpens <= 1

\* Both handles were opened, and the one syslog connection took two writes.
C17_Witness ==
    /\ syslogWriter /\ handleOps.syslogOpens = 1 /\ Len(outSyslog) >= 2
    /\ fileWriter # Nil /\ Len(outFile) >= 1
    /\ \E r \in Elems(done) : r.sinks = {"stdout"}

\* C18: the daemon closes a log file only when the file is not the one
\* named for the current date.
C18_ClosesOnlyStaleFile ==
    [][handleOps'.fileCloses > handleOps.fileCloses =>
         fileWriter.name # FileName(now)]_vars

\* No producer will format or send another record.
ProducersStopped ==
    nextId > MaxRecords /\ \A p \in Producers : pending[p] = None

\* C19: once the producers have stopped, a call of Close() that is polling
\* eventually returns.
C19_CloseEventuallyReturns ==
    [](ProducersStopped /\ closePc # "idle" => <>(closePc = "idle"))

=============================================================================
